---- MODULE Spec2Model ----
(***************************************************************************)
(* Real-time whiteboard: the socket.io server (pages/api/socket.ts, the    *)
(* room registry and the per-connection handlers) and the AutoDraw client  *)
(* (components/AutoDraw.tsx, the pointer handlers and the socket handlers).*)
(* Each connection has two FIFO channels: c2s (client to server) and s2c   *)
(* (server to client).  One action is one handler run to completion.       *)
(***************************************************************************)
EXTENDS Integers, Sequences, FiniteSets, TLC

\* ---------------------------------------------------------------- bounds
NumClients == 2
NumRooms == 1
MaxInputs == 3
MaxServerInputs == 4
MaxCoord == 1
MaxRaw == 3
MaxRawIds == 2
MaxFairInputs == 2
MaxClosed == 1
NumSessionRooms == 2

Clients == 1..NumClients
Rooms == 1..NumRooms

\* ------------------------------------------------------- program constants
DefaultColor == "#111827"
DefaultSize == 4

\* null of `let roomId: string | null` and of the client's '' room / self id
NoRoom == 0
NoId == 0
\* null of `Stroke | null`
NullStroke == [null |-> TRUE]
\* the value of a field the payload does not have
Undefined == [undefined |-> TRUE]
\* {}
EmptyObject == <<>>

\* ------------------------------------------------------------- arithmetic
\* Coordinates are exact rationals <<numerator, denominator>> in lowest terms.
RECURSIVE Gcd(_, _)
Gcd(a, b) == IF b = 0 THEN a ELSE Gcd(b, a % b)

Rat(n, d) == LET g == Gcd(n, d) IN IF g = 0 THEN <<0, 1>> ELSE <<n \div g, d \div g>>

RatMul(r, k) == Rat(r[1] * k, r[2])

RatDiv(r, k) == Rat(r[1], r[2] * k)

\* canvas.getBoundingClientRect() of each client: clients have different sizes
RectWidth(c) == 2 * c

RectHeight(c) == 2

normalizePoint(p, c) ==
  [nx |-> RatDiv(p.x, RectWidth(c)), ny |-> RatDiv(p.y, RectHeight(c)), t |-> p.t]

denormalizePoint(p, c) ==
  [x |-> RatMul(p.nx, RectWidth(c)), y |-> RatMul(p.ny, RectHeight(c)), t |-> p.t]

Front(s) == SubSeq(s, 1, Len(s) - 1)

\* a stroke of the wire / registry as the client stores it (pixel points)
HydrateStroke(st, c) ==
  [st EXCEPT !.points = [j \in 1..Len(st.points) |-> denormalizePoint(st.points[j], c)]]

Hydrate(sts, c) == [i \in 1..Len(sts) |-> HydrateStroke(sts[i], c)]

\* ------------------------------------------------------------------ state
VARIABLES
  rooms,          \* server: Map room -> [strokes: Seq(Stroke)], a function on the rooms set so far
  roomId,         \* server: per connection, the closure variable roomId (NoRoom = null)
  joined,         \* server: per connection, the socket.io rooms the socket has joined
  threw,          \* server: a handler has thrown
  c2s,            \* per connection, the messages sent by the client, not yet handled
  s2c,            \* per connection, the messages sent by the server, not yet handled
  sock,           \* client: "none" (socket state is null), "open" (created), "connected",
                  \* "closed" (the connection is gone)
  clientRoom,     \* client: roomId state (from the URL)
  selfId,         \* client: selfId state
  strokes,        \* client: strokes state
  currentStroke,  \* client: currentStroke state
  isDrawing,      \* client: isDrawing state
  remoteCurrent,  \* client: remoteCurrent[id], the open remote stroke of each sender
  remoteCursors,  \* client: remoteCursors state, the last cursor message of each sender
  clock,          \* client: performance.now()
  uuids,          \* client: number of crypto.randomUUID() calls made
  inputs,         \* number of pointer samples and button clicks made so far, all clients
  raws,           \* number of hand-made messages sent so far, all connections
  sent,           \* history: per stroke id, the points its author has emitted for it
  out,            \* history: per client, the stroke messages it has emitted, in order
  got,            \* history: per client, the stroke messages it has handled, in order
  issued          \* history: the last input, when it was an Undo / Clear click made in a quiet
                  \* state by a client in sync with the registry (NoClick otherwise)

serverVars == <<rooms, roomId, joined, threw>>
chanVars == <<c2s, s2c>>
drawVars == <<strokes, currentStroke, isDrawing, remoteCurrent, remoteCursors>>
clientVars == <<sock, clientRoom, selfId, strokes, currentStroke, isDrawing, remoteCurrent,
                remoteCursors, clock, uuids, inputs>>
vars == <<rooms, roomId, joined, threw, c2s, s2c, sock, clientRoom, selfId, strokes,
          currentStroke, isDrawing, remoteCurrent, remoteCursors, clock, uuids, inputs, raws,
          sent, out, got, issued>>

\* remoteCurrent[id] is a reference: ref is the stroke object, pos its index in the
\* strokes array while that array element is the very same object (0 otherwise).
NullRef == [ref |-> NullStroke, pos |-> 0]

\* the last input was no such click
NoClick == [op |-> "none"]

Init ==
  /\ rooms = <<>>
  /\ roomId = [s \in Clients |-> NoRoom]
  /\ joined = [s \in Clients |-> {}]
  /\ threw = FALSE
  /\ c2s = [s \in Clients |-> <<>>]
  /\ s2c = [s \in Clients |-> <<>>]
  /\ sock = [c \in Clients |-> "none"]
  /\ clientRoom \in [Clients -> Rooms]
  /\ selfId = [c \in Clients |-> NoId]
  /\ strokes = [c \in Clients |-> <<>>]
  /\ currentStroke = [c \in Clients |-> NullStroke]
  /\ isDrawing = [c \in Clients |-> FALSE]
  /\ remoteCurrent = [c \in Clients |-> [id \in Clients |-> NullRef]]
  /\ remoteCursors = [c \in Clients |-> <<>>]
  /\ clock = [c \in Clients |-> 0]
  /\ uuids = [c \in Clients |-> 0]
  /\ inputs = 0
  /\ raws = 0
  /\ sent = <<>>
  /\ out = [c \in Clients |-> <<>>]
  /\ got = [c \in Clients |-> <<>>]
  /\ issued = NoClick

\* ------------------------------------------------------ client: connection
\* socket?.emit(...): nothing is sent while the socket state is null; socket.io
\* buffers what is emitted before the connection is up and sends it first.
emit(c, msg) == IF sock[c] = "none" THEN c2s ELSE [c2s EXCEPT ![c] = Append(@, msg)]

\* the history of the stroke messages emitted
record(c, msg) == IF sock[c] = "none" THEN out ELSE [out EXCEPT ![c] = Append(@, msg)]

\* const s = io(...); setSocket(s)
CreateSocket(c) ==
  /\ sock[c] = "none"
  /\ sock' = [sock EXCEPT ![c] = "open"]
  /\ UNCHANGED <<serverVars, chanVars, clientRoom, selfId, drawVars, clock, uuids, inputs,
                 raws, out, got, sent, issued>>

\* s.on('connect', ...)
OnConnect(c) ==
  /\ sock[c] = "open"
  /\ sock' = [sock EXCEPT ![c] = "connected"]
  /\ selfId' = [selfId EXCEPT ![c] = c]
  /\ c2s' = [c2s EXCEPT ![c] = Append(@, [type |-> "join_room", room |-> clientRoom[c]])]
  /\ UNCHANGED <<serverVars, s2c, clientRoom, drawVars, clock, uuids, inputs, raws, out, got,
                 sent, issued>>

\* ------------------------------------------------------- client: drawing
Coords == 1..MaxCoord

getPos(c, x, y) == [x |-> <<x, 1>>, y |-> <<y, 1>>, t |-> clock[c]]

randomUUID(c) == <<c, uuids[c] + 1>>

\* one pointer: a pointerdown comes only when no pointer is down
handlePointerDown(c, x, y) ==
  /\ ~isDrawing[c]
  /\ inputs' = inputs + 1
  /\ LET p == getPos(c, x, y)
         s == [id |-> randomUUID(c), points |-> <<p>>, color |-> DefaultColor,
               size |-> DefaultSize, owner |-> selfId[c]]
         w == [s EXCEPT !.points = <<normalizePoint(p, c)>>]
     IN /\ isDrawing' = [isDrawing EXCEPT ![c] = TRUE]
        /\ currentStroke' = [currentStroke EXCEPT ![c] = s]
        /\ c2s' = emit(c, [type |-> "stroke_start", room |-> clientRoom[c], stroke |-> w])
        /\ out' = record(c, [type |-> "stroke_start", room |-> clientRoom[c], stroke |-> w])
        /\ sent' = IF sock[c] = "none" THEN sent ELSE (s.id :> w.points) @@ sent
  /\ clock' = [clock EXCEPT ![c] = @ + 1]
  /\ uuids' = [uuids EXCEPT ![c] = @ + 1]
  /\ issued' = NoClick
  /\ UNCHANGED <<serverVars, s2c, sock, clientRoom, selfId, strokes, remoteCurrent, remoteCursors,
                 raws, got>>

handlePointerMove(c, x, y) ==
  /\ isDrawing[c]
  /\ currentStroke[c] # NullStroke
  /\ inputs' = inputs + 1
  /\ LET p == getPos(c, x, y)
         n == normalizePoint(p, c)
         id == currentStroke[c].id
     IN /\ currentStroke' = [currentStroke EXCEPT ![c].points = Append(@, p)]
        /\ c2s' = emit(c, [type |-> "stroke_append", room |-> clientRoom[c], point |-> n])
        /\ out' = record(c, [type |-> "stroke_append", room |-> clientRoom[c], point |-> n])
        /\ sent' = IF sock[c] # "none" /\ id \in DOMAIN sent
                     THEN [sent EXCEPT ![id] = Append(@, n)]
                     ELSE sent
  /\ clock' = [clock EXCEPT ![c] = @ + 1]
  /\ UNCHANGED <<serverVars, s2c, sock, clientRoom, selfId, strokes, isDrawing,
                 remoteCurrent, remoteCursors, uuids, raws, got>>
  /\ issued' = NoClick

handlePointerUp(c) ==
  /\ isDrawing[c]
  /\ strokes' = IF currentStroke[c] # NullStroke /\ Len(currentStroke[c].points) > 1
                  THEN [strokes EXCEPT ![c] = Append(@, currentStroke[c])]
                  ELSE strokes
  /\ c2s' = emit(c, [type |-> "stroke_end", room |-> clientRoom[c]])
  /\ out' = record(c, [type |-> "stroke_end", room |-> clientRoom[c]])
  /\ currentStroke' = [currentStroke EXCEPT ![c] = NullStroke]
  /\ isDrawing' = [isDrawing EXCEPT ![c] = FALSE]
  /\ UNCHANGED <<serverVars, s2c, sock, clientRoom, selfId, remoteCurrent, remoteCursors,
                 clock, uuids, inputs, raws, got, sent, issued>>

\* an element removed from, or replaced in, the strokes array is no longer the
\* object a remoteCurrent entry refers to; kept: the indices left untouched
Unshare(rc, kept) ==
  [id \in Clients |-> IF rc[id].pos \in kept THEN rc[id] ELSE [rc[id] EXCEPT !.pos = 0]]

\* s => s.slice(0, -1)
SliceLast(c) ==
  /\ strokes' = [strokes EXCEPT ![c] = Front(@)]
  /\ remoteCurrent' = [remoteCurrent EXCEPT ![c] = Unshare(@, 1..(Len(strokes[c]) - 1))]

\* () => []
Empty(c) ==
  /\ strokes' = [strokes EXCEPT ![c] = <<>>]
  /\ remoteCurrent' = [remoteCurrent EXCEPT ![c] = Unshare(@, {})]

\* no message is in flight and no stroke is being drawn
Quiet ==
  /\ \A c \in Clients : c2s[c] = <<>> /\ s2c[c] = <<>>
  /\ \A c \in Clients : currentStroke[c] = NullStroke

\* the strokes of the client's room in the registry (none before the room exists)
Registry(c) ==
  IF clientRoom[c] \in DOMAIN rooms THEN rooms[clientRoom[c]].strokes ELSE <<>>

\* the client is a member of its room and its strokes are those of the registry
InSync(c) ==
  /\ sock[c] = "connected"
  /\ clientRoom[c] \in joined[c]
  /\ roomId[c] = clientRoom[c]
  /\ strokes[c] = Hydrate(Registry(c), c)

\* what a click is remembered by: the client, the button and the length of the list
Click(c, op) ==
  IF Quiet /\ InSync(c) THEN [op |-> op, by |-> c, n |-> Len(strokes[c])] ELSE NoClick

undo(c) ==
  /\ inputs' = inputs + 1
  /\ SliceLast(c)
  /\ c2s' = emit(c, [type |-> "undo", room |-> clientRoom[c]])
  /\ issued' = Click(c, "undo")
  /\ UNCHANGED <<serverVars, s2c, sock, clientRoom, selfId, currentStroke, isDrawing, clock,
                 uuids, raws, out, got, sent, remoteCursors>>

clear(c) ==
  /\ inputs' = inputs + 1
  /\ Empty(c)
  /\ c2s' = emit(c, [type |-> "clear", room |-> clientRoom[c]])
  /\ issued' = Click(c, "clear")
  /\ UNCHANGED <<serverVars, s2c, sock, clientRoom, selfId, currentStroke, isDrawing, clock,
                 uuids, raws, out, got, sent, remoteCursors>>

\* the window 'pointermove' listener of the cursor effect, installed once the socket
\* state is set; the animation frame it requests emits the cursor
move(c, x, y) ==
  /\ sock[c] \in {"open", "connected"}
  /\ inputs' = inputs + 1
  /\ c2s' = emit(c, [type |-> "cursor", room |-> clientRoom[c],
                     nx |-> RatDiv(<<x, 1>>, RectWidth(c)),
                     ny |-> RatDiv(<<y, 1>>, RectHeight(c)), color |-> DefaultColor])
  /\ UNCHANGED <<serverVars, s2c, sock, clientRoom, selfId, drawVars, clock, uuids, raws, out,
                 got, sent, issued>>

\* ------------------------------------------------- client: socket handlers
Incoming(c, type) ==
  /\ sock[c] = "connected"
  /\ s2c[c] # <<>>
  /\ Head(s2c[c]).type = type

Consume(c) == s2c' = [s2c EXCEPT ![c] = Tail(@)]

\* s.on('state', ...)
onState(c) ==
  /\ Incoming(c, "state")
  /\ Consume(c)
  /\ strokes' = [strokes EXCEPT ![c] = Hydrate(Head(s2c[c]).strokes, c)]
  /\ remoteCurrent' = [remoteCurrent EXCEPT ![c] = Unshare(@, {})]
  /\ UNCHANGED <<serverVars, c2s, sock, clientRoom, selfId, currentStroke, isDrawing, clock,
                 uuids, inputs, raws, out, got, sent, issued, remoteCursors>>

\* s.on('cursor', ...): prev => ({ ...prev, [data.id]: data })
onCursor(c) ==
  /\ Incoming(c, "cursor")
  /\ Consume(c)
  /\ LET data == Head(s2c[c])
         prev == remoteCursors[c]
     IN remoteCursors' = [remoteCursors EXCEPT ![c] =
                            [id \in DOMAIN prev \cup {data.id} |->
                               IF id = data.id THEN data ELSE prev[id]]]
  /\ UNCHANGED <<serverVars, c2s, sock, clientRoom, selfId, strokes, currentStroke, isDrawing,
                 remoteCurrent, clock, uuids, inputs, raws, out, got, sent, issued>>

\* s.on('stroke_start', ...)
onStrokeStart(c) ==
  /\ Incoming(c, "stroke_start")
  /\ Consume(c)
  /\ got' = [got EXCEPT ![c] = Append(@, Head(s2c[c]))]
  /\ LET m == Head(s2c[c])
         hydrated == HydrateStroke(m.stroke, c)
     IN /\ remoteCurrent' = [remoteCurrent EXCEPT ![c][m.id] =
                               [ref |-> hydrated, pos |-> Len(strokes[c]) + 1]]
        /\ strokes' = [strokes EXCEPT ![c] = Append(@, hydrated)]
  /\ UNCHANGED <<serverVars, c2s, sock, clientRoom, selfId, currentStroke, isDrawing, clock,
                 uuids, inputs, raws, out, sent, issued, remoteCursors>>

\* a map that replaces every stroke of the list
ReplaceById_everyStroke(sts, cs) == [i \in 1..Len(sts) |-> cs]

\* prev.map(st => st.id === cs.id ? { ...cs } : st)
ReplaceById(sts, cs) == [i \in 1..Len(sts) |-> IF sts[i].id = cs.id THEN cs ELSE sts[i]]

\* s.on('stroke_append', ...)
onStrokeAppend(c) ==
  /\ Incoming(c, "stroke_append")
  /\ Consume(c)
  /\ got' = [got EXCEPT ![c] = Append(@, Head(s2c[c]))]
  /\ LET m == Head(s2c[c])
         cs == remoteCurrent[c][m.id].ref
         p == denormalizePoint(m.point, c)
         n == Len(strokes[c])
     IN IF cs # NullStroke
          THEN LET cs2 == [cs EXCEPT !.points = Append(@, p)]
                   K == {i \in 1..n : strokes[c][i].id # cs.id}
               IN /\ strokes' = [strokes EXCEPT ![c] = ReplaceById(@, cs2)]
                  /\ remoteCurrent' = [remoteCurrent EXCEPT ![c] =
                                         [Unshare(@, K) EXCEPT ![m.id] = [ref |-> cs2, pos |-> 0]]]
          ELSE \* fallback: append to last stroke
               /\ strokes' = IF n > 0
                               THEN [strokes EXCEPT ![c][n].points = Append(@, p)]
                               ELSE strokes
               /\ remoteCurrent' = [remoteCurrent EXCEPT ![c] =
                                      [id \in Clients |->
                                         IF n > 0 /\ @[id].pos = n
                                           THEN [@[id] EXCEPT !.ref.points = Append(@, p)]
                                           ELSE @[id]]]
  /\ UNCHANGED <<serverVars, c2s, sock, clientRoom, selfId, currentStroke, isDrawing, clock,
                 uuids, inputs, raws, out, sent, issued, remoteCursors>>

\* s.on('stroke_end', ...)
onStrokeEnd(c) ==
  /\ Incoming(c, "stroke_end")
  /\ Consume(c)
  /\ got' = [got EXCEPT ![c] = Append(@, Head(s2c[c]))]
  /\ remoteCurrent' = [remoteCurrent EXCEPT ![c][Head(s2c[c]).id] = NullRef]
  /\ UNCHANGED <<serverVars, c2s, sock, clientRoom, selfId, strokes, currentStroke, isDrawing,
                 clock, uuids, inputs, raws, out, sent, issued, remoteCursors>>

\* s.on('clear', ...)
onClear(c) ==
  /\ Incoming(c, "clear")
  /\ Consume(c)
  /\ Empty(c)
  /\ UNCHANGED <<serverVars, c2s, sock, clientRoom, selfId, currentStroke, isDrawing, clock,
                 uuids, inputs, raws, out, got, sent, issued, remoteCursors>>

\* s.on('undo', ...)
onUndo(c) ==
  /\ Incoming(c, "undo")
  /\ Consume(c)
  /\ SliceLast(c)
  /\ UNCHANGED <<serverVars, c2s, sock, clientRoom, selfId, currentStroke, isDrawing, clock,
                 uuids, inputs, raws, out, got, sent, issued, remoteCursors>>

\* events the client registers no listener for
onUnhandled(c) ==
  /\ sock[c] = "connected"
  /\ s2c[c] # <<>>
  /\ Head(s2c[c]).type \in {"user_joined", "user_left"}
  /\ Consume(c)
  /\ UNCHANGED <<serverVars, c2s, clientVars, raws, out, got, sent, issued>>

\* --------------------------------------------------------------- server
\* what a connection sent before it closed still arrives, in order
Received(s, type) ==
  /\ sock[s] \in {"connected", "closed"}
  /\ c2s[s] # <<>>
  /\ Head(c2s[s]).type = type

\* ({ room, stroke }) => ...: a field the payload lacks is undefined
Field(m, f) == IF f \in DOMAIN m THEN m[f] ELSE Undefined

\* { ...stroke }
Spread(x) == IF x = Undefined THEN EmptyObject ELSE x

Handled(s) == c2s' = [c2s EXCEPT ![s] = Tail(@)]

\* the sockets in a socket.io room
Members(jn, room) == {t \in Clients : room \in jn[t]}

\* a delivery that puts the newest message first
Broadcast_newestFirst(q, to, msg) == [t \in Clients |-> IF t \in to THEN <<msg>> \o q[t] ELSE q[t]]

\* emit one message to each socket of a set
Broadcast(q, to, msg) == [t \in Clients |-> IF t \in to THEN Append(q[t], msg) ELSE q[t]]

\* rooms.set(room, { strokes: [] }) whether the room exists or not
getOrCreate_fresh(room) == (room :> [strokes |-> <<>>]) @@ rooms

\* rooms.get(room) || { strokes: [] }; rooms.set(room, state)
getOrCreate(room) ==
  IF room \in DOMAIN rooms THEN rooms ELSE (room :> [strokes |-> <<>>]) @@ rooms

\* a snapshot that leaves out the newest stroke
Snapshot_withoutLast(state) == Front(state.strokes)

\* socket.emit("state", state): the payload is serialized when it is emitted
Snapshot(state) == state.strokes

\* socket.on("join_room", ...)
join_room(s) ==
  /\ Received(s, "join_room")
  /\ Handled(s)
  /\ LET room == Head(c2s[s]).room
     IN /\ roomId' = [roomId EXCEPT ![s] = room]
        /\ joined' = [joined EXCEPT ![s] = @ \cup {room}]
        /\ rooms' = getOrCreate(room)
        /\ s2c' = Broadcast(Broadcast(s2c, {s}, [type |-> "state", strokes |-> Snapshot(rooms'[room])]),
                            Members(joined', room) \ {s}, [type |-> "user_joined", id |-> s])
  /\ UNCHANGED <<threw, clientVars, raws, out, got, sent, issued>>

\* unshift() in place of push(): the new stroke goes first
PushStroke_unshift(sts, stroke) == <<Spread(stroke)>> \o sts

\* state.strokes.push({ ...stroke })
PushStroke(sts, stroke) == Append(sts, Spread(stroke))

\* socket.on("cursor", ...): { id: socket.id, ...payload }
cursor(s) ==
  /\ Received(s, "cursor")
  /\ Handled(s)
  /\ s2c' = IF roomId[s] = NoRoom
              THEN s2c
              ELSE LET payload == Head(c2s[s])
                   IN Broadcast(s2c, Members(joined, roomId[s]) \ {s},
                                [type |-> "cursor", id |-> s, room |-> payload.room,
                                 nx |-> payload.nx, ny |-> payload.ny,
                                 color |-> payload.color])
  /\ UNCHANGED <<serverVars, clientVars, raws, out, got, sent, issued>>

\* socket.on("stroke_start", ...)
stroke_start(s) ==
  /\ Received(s, "stroke_start")
  /\ Handled(s)
  /\ LET room == Head(c2s[s]).room
         stroke == Field(Head(c2s[s]), "stroke")
     IN /\ roomId' = [roomId EXCEPT ![s] = room]
        /\ joined' = [joined EXCEPT ![s] = @ \cup {room}]
        /\ rooms' = [getOrCreate(room) EXCEPT ![room].strokes = PushStroke(@, stroke)]
        /\ s2c' = Broadcast(s2c, Members(joined', room) \ {s},
                            [type |-> "stroke_start", id |-> s, stroke |-> stroke])
  /\ UNCHANGED <<threw, clientVars, raws, out, got, sent, issued>>

\* const last = state.strokes[state.strokes.length - 1]; the index of the stroke
\* that receives the point (0: none)
AppendTarget(sts, s) == Len(sts)

\* socket.on("stroke_append", ...)
stroke_append(s) ==
  /\ Received(s, "stroke_append")
  /\ Handled(s)
  /\ LET r == roomId[s]
         point == Field(Head(c2s[s]), "point")
         i == IF r = NoRoom \/ r \notin DOMAIN rooms THEN 0 ELSE AppendTarget(rooms[r].strokes, s)
     IN IF r = NoRoom \/ r \notin DOMAIN rooms
          THEN UNCHANGED <<rooms, s2c, threw>>
          ELSE IF i # 0 /\ "points" \notin DOMAIN rooms[r].strokes[i]
            THEN \* last.points is undefined: push throws
                 /\ threw' = TRUE
                 /\ UNCHANGED <<rooms, s2c>>
            ELSE /\ rooms' = IF i # 0
                               THEN [rooms EXCEPT ![r].strokes[i].points = Append(@, point)]
                               ELSE rooms
                 /\ s2c' = Broadcast(s2c, Members(joined, r) \ {s},
                                     [type |-> "stroke_append", id |-> s, point |-> point])
                 /\ UNCHANGED threw
  /\ UNCHANGED <<roomId, joined, clientVars, raws, out, got, sent, issued>>

\* socket.on("stroke_end", ...)
stroke_end(s) ==
  /\ Received(s, "stroke_end")
  /\ Handled(s)
  /\ s2c' = IF roomId[s] = NoRoom
              THEN s2c
              ELSE Broadcast(s2c, Members(joined, roomId[s]) \ {s}, [type |-> "stroke_end", id |-> s])
  /\ UNCHANGED <<serverVars, clientVars, raws, out, got, sent, issued>>

\* a clear that empties every room of the registry
server_clear_allRooms(s) ==
  /\ Received(s, "clear")
  /\ Handled(s)
  /\ LET r == roomId[s]
     IN IF r = NoRoom
          THEN UNCHANGED <<rooms, s2c>>
          ELSE /\ rooms' = [q \in DOMAIN rooms |-> [strokes |-> <<>>]]
               /\ s2c' = Broadcast(s2c, Members(joined, r), [type |-> "clear"])
  /\ UNCHANGED <<roomId, joined, threw, clientVars, raws, out, got, sent, issued>>

\* socket.on("clear", ...)
server_clear(s) ==
  /\ Received(s, "clear")
  /\ Handled(s)
  /\ LET r == roomId[s]
     IN IF r = NoRoom
          THEN UNCHANGED <<rooms, s2c>>
          ELSE /\ rooms' = IF r \in DOMAIN rooms THEN [rooms EXCEPT ![r].strokes = <<>>] ELSE rooms
               /\ s2c' = Broadcast(s2c, Members(joined, r), [type |-> "clear"])
  /\ UNCHANGED <<roomId, joined, threw, clientVars, raws, out, got, sent, issued>>

\* shift() in place of pop(): the oldest stroke goes
Pop_shift(sts) == IF sts = <<>> THEN <<>> ELSE Tail(sts)

\* state.strokes.pop()
Pop(sts) == Front(sts)

\* an undo that reads a field of the popped stroke: pop() of an empty array is
\* undefined and the read throws before the broadcast
server_undo_readsPopped(s) ==
  /\ Received(s, "undo")
  /\ Handled(s)
  /\ LET r == roomId[s]
     IN IF r = NoRoom \/ r \notin DOMAIN rooms
          THEN UNCHANGED <<rooms, s2c, threw>>
          ELSE IF rooms[r].strokes = <<>>
            THEN threw' = TRUE /\ UNCHANGED <<rooms, s2c>>
            ELSE /\ rooms' = [rooms EXCEPT ![r].strokes = Pop(@)]
                 /\ s2c' = Broadcast(s2c, Members(joined, r), [type |-> "undo"])
                 /\ UNCHANGED threw
  /\ UNCHANGED <<roomId, joined, clientVars, raws, out, got, sent, issued>>

\* socket.on("undo", ...)
server_undo(s) ==
  /\ Received(s, "undo")
  /\ Handled(s)
  /\ LET r == roomId[s]
     IN IF r = NoRoom \/ r \notin DOMAIN rooms
          THEN UNCHANGED <<rooms, s2c>>
          ELSE /\ rooms' = [rooms EXCEPT ![r].strokes = Pop(@)]
               /\ s2c' = Broadcast(s2c, Members(joined, r), [type |-> "undo"])
  /\ UNCHANGED <<roomId, joined, threw, clientVars, raws, out, got, sent, issued>>

\* a disconnect handler that emits nothing
disconnect_silent(s) ==
  /\ Received(s, "disconnect")
  /\ Handled(s)
  /\ joined' = [joined EXCEPT ![s] = {}]
  /\ UNCHANGED <<rooms, roomId, threw, s2c, clientVars, raws, out, got, sent, issued>>

\* socket.on("disconnect", ...): the socket has left its socket.io rooms by then
disconnect(s) ==
  /\ Received(s, "disconnect")
  /\ Handled(s)
  /\ joined' = [joined EXCEPT ![s] = {}]
  /\ s2c' = IF roomId[s] = NoRoom
              THEN s2c
              ELSE Broadcast(s2c, Members(joined', roomId[s]) \ {s},
                             [type |-> "user_left", id |-> s])
  /\ UNCHANGED <<rooms, roomId, threw, clientVars, raws, out, got, sent, issued>>

\* ------------------------------------------------ hand-made connections
\* The server handles whatever a connected socket sends.  A hand-made client
\* connects without the AutoDraw component and emits messages of its choice.
RawConnect(s) ==
  /\ sock[s] = "none"
  /\ sock' = [sock EXCEPT ![s] = "connected"]
  /\ UNCHANGED <<serverVars, chanVars, clientRoom, selfId, drawVars, clock, uuids, inputs,
                 raws, out, got, sent, issued>>

RawPoint(s) == [nx |-> Rat(1, 2 * s), ny |-> Rat(1, 2), t |-> raws]

RawStrokeIds == {<<0, i>> : i \in 1..MaxRawIds}

\* a stroke with its first point, and a stroke without points
RawStrokes(s) ==
  {[id |-> i, points |-> <<RawPoint(s)>>, color |-> DefaultColor, size |-> DefaultSize,
    owner |-> s] : i \in RawStrokeIds}
  \cup {[id |-> i] : i \in RawStrokeIds}

RawMessages(s) ==
  {[type |-> "join_room", room |-> r] : r \in Rooms}
  \cup {[type |-> "stroke_start", room |-> r, stroke |-> st] : r \in Rooms, st \in RawStrokes(s)}
  \cup {[type |-> "stroke_append", room |-> r, point |-> RawPoint(s)] : r \in Rooms}
  \cup {[type |-> t, room |-> r] : t \in {"stroke_end", "undo", "clear"}, r \in Rooms}

RawEmit(s, msg) ==
  /\ sock[s] = "connected"
  /\ raws < MaxRaw
  /\ raws' = raws + 1
  /\ c2s' = [c2s EXCEPT ![s] = Append(@, msg)]
  /\ UNCHANGED <<serverVars, s2c, clientVars, sent, issued, out, got>>

\* the connection goes away (tab closed, network lost): the server's "disconnect"
\* event comes after everything the connection sent
Close(s) ==
  /\ sock[s] = "connected"
  /\ sock' = [sock EXCEPT ![s] = "closed"]
  /\ c2s' = [c2s EXCEPT ![s] = Append(@, [type |-> "disconnect"])]
  /\ UNCHANGED <<serverVars, s2c, clientRoom, selfId, drawVars, clock, uuids, inputs, raws,
                 out, got, sent, issued>>

\* hand-made sessions name any of these rooms
SessionRooms == 1..NumSessionRooms

\* one stroke per session, well-formed or without points
SessionStrokes(s) ==
  {[id |-> <<0, s>>, points |-> <<RawPoint(s)>>, color |-> DefaultColor, size |-> DefaultSize,
    owner |-> s],
   [id |-> <<0, s>>]}

\* well-formed messages and messages that lack a field
SessionMessages(s) ==
  {[type |-> "join_room", room |-> r] : r \in SessionRooms}
  \cup {[type |-> "stroke_start", room |-> r, stroke |-> st] :
          r \in SessionRooms, st \in SessionStrokes(s)}
  \cup {[type |-> "stroke_start", room |-> r] : r \in SessionRooms}
  \cup {[type |-> "stroke_append", room |-> r, point |-> RawPoint(s)] : r \in SessionRooms}
  \cup {[type |-> "stroke_append", room |-> r] : r \in SessionRooms}
  \cup {[type |-> t, room |-> r] : t \in {"stroke_end", "undo", "clear"}, r \in SessionRooms}
  \cup {[type |-> "cursor", room |-> r, nx |-> Rat(1, 2 * s), ny |-> Rat(1, 2),
          color |-> DefaultColor] : r \in SessionRooms}

\* ------------------------------------------------------ specifications
ConnStep(c) ==
  \/ CreateSocket(c)
  \/ OnConnect(c)

\* a pointer sample or a button click
UserInput(c) ==
  \/ \E x \in Coords, y \in Coords : handlePointerDown(c, x, y)
  \/ \E x \in Coords, y \in Coords : handlePointerMove(c, x, y)
  \/ undo(c)
  \/ clear(c)

RecvStep(c) ==
  \/ onState(c)
  \/ onStrokeStart(c)
  \/ onStrokeAppend(c)
  \/ onStrokeEnd(c)
  \/ onClear(c)
  \/ onUndo(c)
  \/ onUnhandled(c)

ServerStep(s) ==
  \/ join_room(s)
  \/ stroke_start(s)
  \/ stroke_append(s)
  \/ stroke_end(s)
  \/ server_clear(s)
  \/ server_undo(s)

\* AutoDraw clients and the server
Next ==
  \E c \in Clients :
    \/ ConnStep(c)
    \/ inputs < MaxInputs /\ UserInput(c)
    \/ handlePointerUp(c)
    \/ RecvStep(c)
    \/ ServerStep(c)

Spec == Init /\ [][Next]_vars

\* AutoDraw clients and the server, the clients not (yet) handling what they
\* receive: s2c[c] is then everything the server has sent to c, in order.  No
\* pointer or button handler reads what a socket handler writes (strokes,
\* remoteCurrent), so the server sees the same message streams as under Spec.
NextServer ==
  \E c \in Clients :
    \/ ConnStep(c)
    \/ inputs < MaxServerInputs /\ UserInput(c)
    \/ handlePointerUp(c)
    \/ ServerStep(c)

SpecServer == Init /\ [][NextServer]_vars

\* hand-made clients and the server
NextRaw ==
  \E s \in Clients :
    \/ RawConnect(s)
    \/ \E msg \in RawMessages(s) : RawEmit(s, msg)
    \/ ServerStep(s)

SpecRaw == Init /\ [][NextRaw]_vars

\* hand-made sessions over several rooms, with cursor messages, payloads that lack a
\* field, and connections that go away
NextSession ==
  \E s \in Clients :
    \/ RawConnect(s)
    \/ \E msg \in SessionMessages(s) : RawEmit(s, msg)
    \/ Close(s)
    \/ ServerStep(s)
    \/ cursor(s)
    \/ disconnect(s)

SpecSession == Init /\ [][NextSession]_vars

\* AutoDraw clients that move the pointer over the window and go away, and the server
NextCursor ==
  \E c \in Clients :
    \/ ConnStep(c)
    \/ inputs < MaxInputs /\ \E x \in Coords, y \in Coords : move(c, x, y)
    \/ Close(c)
    \/ onState(c)
    \/ onCursor(c)
    \/ onUnhandled(c)
    \/ join_room(c)
    \/ cursor(c)
    \/ disconnect(c)

SpecCursor == Init /\ [][NextCursor]_vars

\* AutoDraw clients that draw, of which up to MaxClosed go away, and the server; every
\* message that has arrived is handled in the end: the server runs the handler of each
\* connection's next message, a connected client the listener of its next message
Draw(c) ==
  \/ \E x \in Coords, y \in Coords : handlePointerDown(c, x, y)
  \/ \E x \in Coords, y \in Coords : handlePointerMove(c, x, y)

ServerFair(s) ==
  \/ join_room(s)
  \/ stroke_start(s)
  \/ stroke_append(s)
  \/ stroke_end(s)
  \/ disconnect(s)

RecvFair(c) ==
  \/ onState(c)
  \/ onStrokeStart(c)
  \/ onStrokeAppend(c)
  \/ onStrokeEnd(c)
  \/ onUnhandled(c)

NextFair ==
  \E c \in Clients :
    \/ ConnStep(c)
    \/ inputs < MaxFairInputs /\ sock[c] # "closed" /\ Draw(c)
    \/ sock[c] # "closed" /\ handlePointerUp(c)
    \/ Cardinality({d \in Clients : sock[d] = "closed"}) < MaxClosed /\ Close(c)
    \/ RecvFair(c)
    \/ ServerFair(c)

Fairness == \A c \in Clients : WF_vars(ServerFair(c)) /\ WF_vars(RecvFair(c))

SpecFair == Init /\ [][NextFair]_vars /\ Fairness

TypeOK ==
  /\ \A c \in Clients : sock[c] \in {"none", "open", "connected", "closed"}
  /\ inputs \in 0..MaxServerInputs
  /\ raws \in 0..MaxRaw
  /\ threw \in BOOLEAN

\* ------------------------------------------------------------- claims
\* the client whose randomUUID() made a stroke id
Author(id) == id[1]

IsPrefix(a, b) == Len(a) <= Len(b) /\ a = SubSeq(b, 1, Len(a))

HasStroke(sts, id) == \E i \in 1..Len(sts) : sts[i].id = id

PointsOf(sts, id) == sts[CHOOSE i \in 1..Len(sts) : sts[i].id = id].points

\* the server is handling the message at the head of c2s[s] in this step
Handles(s, type) == Received(s, type) /\ c2s'[s] = Tail(c2s[s])

\* client c is drawing a stroke whose stroke_start the server has handled
StartHandled(c) ==
  /\ currentStroke[c] # NullStroke
  /\ currentStroke[c].id \in DOMAIN sent
  /\ sock[c] = "connected"
  /\ roomId[c] = clientRoom[c]
  /\ \A i \in 1..Len(c2s[c]) : c2s[c][i].type # "stroke_start"

\* client c has an open stroke in the registry: stroke_start handled, no stroke_end sent
OpenInRegistry(c) ==
  /\ StartHandled(c)
  /\ HasStroke(Registry(c), currentStroke[c].id)

\* C1 (Append routing): when sessions A and B of one room both have an open stroke,
\* the server handling a stroke_append of A adds the point to A's stroke and leaves
\* B's stroke as it was.
C1_AppendRouting ==
  [][\A a \in Clients, b \in Clients :
       ( /\ a # b
         /\ clientRoom[a] = clientRoom[b]
         /\ OpenInRegistry(a)
         /\ OpenInRegistry(b)
         /\ Handles(a, "stroke_append") )
       => LET r == roomId[a]
              old == rooms[r].strokes
              new == rooms'[r].strokes
          IN /\ PointsOf(new, currentStroke[b].id) = PointsOf(old, currentStroke[b].id)
             /\ PointsOf(new, currentStroke[a].id)
                  = Append(PointsOf(old, currentStroke[a].id), Head(c2s[a]).point)]_vars

\* C3 (Order preservation): the points of a stroke in the registry are the points its
\* author has emitted for it (the first point of stroke_start, then the appended
\* points), in send order: a prefix of them while messages of the author are in
\* flight, all of them once the author's messages are handled.
C3_OrderPreservation ==
  \A r \in DOMAIN rooms : \A i \in 1..Len(rooms[r].strokes) :
    LET st == rooms[r].strokes[i]
    IN st.id \in DOMAIN sent =>
         /\ IsPrefix(st.points, sent[st.id])
         /\ c2s[Author(st.id)] = <<>> => st.points = sent[st.id]

\* C7: a stroke_append changes the points of no stroke that another session started.
C7_AppendOnlyByAuthor ==
  [][\A s \in Clients :
       (Handles(s, "stroke_append") /\ roomId[s] # NoRoom)
       => LET old == rooms[roomId[s]].strokes
              new == rooms'[roomId[s]].strokes
          IN \A i \in 1..Len(old) : new[i].points # old[i].points => Author(old[i].id) = s]_vars

\* C8 (Missing target): a stroke_append of a session whose stroke in progress is no
\* longer in the registry (undone or cleared) changes no stroke and raises no error.
C8_MissingTargetNoOp ==
  [][\A s \in Clients :
       ( /\ Handles(s, "stroke_append")
         /\ StartHandled(s)
         /\ ~HasStroke(Registry(s), currentStroke[s].id) )
       => rooms' = rooms /\ threw' = threw]_vars

\* C9: no two strokes of a room have the same id.
C9_UniqueStrokeIds ==
  \A r \in DOMAIN rooms : \A i, j \in 1..Len(rooms[r].strokes) :
    i # j => rooms[r].strokes[i].id # rooms[r].strokes[j].id

\* C10: an undo or a clear handled for a room with zero strokes leaves the registry as
\* it was (the strokes stay empty), raises no error, and the connection stays
\* connected and joined, its later messages still queued for handling.
C10_UndoClearOnEmpty ==
  [][\A s \in Clients :
       ( /\ Handles(s, "undo") \/ Handles(s, "clear")
         /\ roomId[s] # NoRoom
         /\ rooms[roomId[s]].strokes = <<>> )
       => /\ rooms' = rooms
          /\ rooms'[roomId[s]].strokes = <<>>
          /\ threw' = threw
          /\ sock'[s] = "connected"
          /\ roomId'[s] = roomId[s]
          /\ joined'[s] = joined[s]]_vars

\* a hand-made client joined an empty room, its undo or clear was handled there, and
\* a stroke_start it sent later was handled too
C10_Witness ==
  \E s \in Clients :
    /\ \A t \in Clients \ {s} : sock[t] = "none"
    /\ Len(s2c[s]) = 2
    /\ s2c[s][1] = [type |-> "state", strokes |-> <<>>]
    /\ s2c[s][2].type \in {"undo", "clear"}
    /\ roomId[s] # NoRoom
    /\ rooms[roomId[s]].strokes # <<>>
    /\ ~threw

\* C6: an undo of a joined session removes the last stroke of the room, whoever made
\* it, and leaves the earlier strokes, their order and the other rooms as they were.
C6_UndoRemovesLast ==
  [][\A s \in Clients :
       (Handles(s, "undo") /\ roomId[s] # NoRoom)
       => LET old == rooms[roomId[s]].strokes
              new == rooms'[roomId[s]].strokes
          IN /\ Len(new) = IF old = <<>> THEN 0 ELSE Len(old) - 1
             /\ \A i \in 1..Len(new) : new[i] = old[i]
             /\ \A r \in DOMAIN rooms : r # roomId[s] => rooms'[r] = rooms[r]]_vars

\* a client that made no stroke clicked Undo when the registry held one stroke, made
\* by another client, and the server has handled the undo: the room is empty
C6_Witness ==
  /\ issued # NoClick
  /\ issued.op = "undo"
  /\ issued.n = 1
  /\ uuids[issued.by] = 0
  /\ c2s[issued.by] = <<>>
  /\ \E a \in Clients \ {issued.by} : <<a, 1>> \in DOMAIN sent
  /\ clientRoom[issued.by] \in DOMAIN rooms
  /\ Registry(issued.by) = <<>>

\* C2 (Snapshot fidelity): the 'state' message the server sends in reply to join_room
\* carries the strokes of the room in the registry, in order and with their points;
\* the client handling it replaces its list by those strokes, with the points
\* denormalized to its canvas.
C2_SnapshotFidelity ==
  [][\A c \in Clients :
       /\ Handles(c, "join_room")
            => LET room == Head(c2s[c]).room
                   reply == s2c'[c][Len(s2c[c]) + 1]
               IN /\ room \in DOMAIN rooms'
                  /\ reply.type = "state"
                  /\ reply.strokes = rooms'[room].strokes
                  /\ reply.strokes = IF room \in DOMAIN rooms THEN rooms[room].strokes ELSE <<>>
       /\ (Incoming(c, "state") /\ s2c'[c] = Tail(s2c[c]))
            => LET snap == Head(s2c[c]).strokes
               IN /\ Len(strokes'[c]) = Len(snap)
                  /\ \A i \in 1..Len(snap) :
                       /\ strokes'[c][i].id = snap[i].id
                       /\ strokes'[c][i].color = snap[i].color
                       /\ strokes'[c][i].size = snap[i].size
                       /\ strokes'[c][i].owner = snap[i].owner
                       /\ Len(strokes'[c][i].points) = Len(snap[i].points)
                       /\ \A j \in 1..Len(snap[i].points) :
                            strokes'[c][i].points[j] = denormalizePoint(snap[i].points[j], c)]_vars

\* client c holds the stroke that client a is still drawing without ever having had
\* its stroke_start relayed (remoteCurrent[a] is null): c got it from the snapshot of
\* its join_room, and c's list is the registry's
C2_Witness ==
  \E c \in Clients, a \in Clients :
    /\ a # c
    /\ currentStroke[a] # NullStroke
    /\ remoteCurrent[c][a] = NullRef
    /\ HasStroke(strokes[c], currentStroke[a].id)
    /\ s2c[c] = <<>>
    /\ InSync(c)

\* C4 (Client eventual consistency): a connected client that has handled every message
\* sent to it, with no message in flight and no stroke in progress anywhere, has the
\* strokes of its room in the registry.
C4_ClientConsistency ==
  \A c \in Clients :
    (Quiet /\ sock[c] = "connected") => strokes[c] = Hydrate(Registry(c), c)

\* C5 (Undo/clear mirroring): a client in sync with the registry clicks Undo with n >= 1
\* strokes (or Clear); once every message is handled its list has n - 1 strokes and is
\* the registry's (after Clear both are empty).
C5_UndoClearMirror ==
  (issued # NoClick /\ Quiet)
  => LET c == issued.by
     IN IF issued.op = "undo"
          THEN issued.n >= 1 =>
                 Len(strokes[c]) = issued.n - 1 /\ strokes[c] = Hydrate(Registry(c), c)
          ELSE strokes[c] = <<>> /\ Registry(c) = <<>>

\* the ids of a sequence of strokes (<<>> for a stroke without id)
StrokeIds(sts) == [i \in 1..Len(sts) |-> IF "id" \in DOMAIN sts[i] THEN sts[i].id ELSE <<>>]

\* the strokes of room r in the registry (none before the room exists)
StrokesOf(rs, r) == IF r \in DOMAIN rs THEN rs[r].strokes ELSE <<>>

\* C11: in every step, the sequence of stroke ids of a room stays as it is, gets one
\* id appended at the end, loses its last id, or becomes empty; nothing is inserted,
\* removed or reordered in the middle.
C11_TailOnlyChanges ==
  [][\A r \in SessionRooms :
       LET old == StrokeIds(StrokesOf(rooms, r))
           new == StrokeIds(StrokesOf(rooms', r))
       IN \/ new = old
          \/ Len(new) = Len(old) + 1 /\ Front(new) = old
          \/ old # <<>> /\ new = Front(old)
          \/ new = <<>>]_vars

\* sessions a and b each started a stroke in one room, a's first, and an undo of a was
\* then handled: the room holds a's stroke alone
C11_Witness ==
  \E a \in Clients : \E b \in Clients \ {a} :
    /\ roomId[a] # NoRoom
    /\ roomId[b] = roomId[a]
    /\ StrokeIds(StrokesOf(rooms, roomId[a])) = << <<0, a>> >>
    /\ Len(s2c[a]) = 2
    /\ s2c[a][1].type = "stroke_start" /\ s2c[a][1].id = b
    /\ s2c[a][2].type = "undo"
    /\ c2s[a] = <<>> /\ c2s[b] = <<>>

\* the server has sent msg-like message of this type and sender to t in this step
RelayedTo(t, type, s) ==
  /\ Len(s2c'[t]) = Len(s2c[t]) + 1
  /\ Front(s2c'[t]) = s2c[t]
  /\ s2c'[t][Len(s2c'[t])].type = type
  /\ s2c'[t][Len(s2c'[t])].id = s

\* C12 (Fan-out targets): a stroke_start, stroke_append, stroke_end or cursor message
\* of a joined session is relayed with the sender's id to every other member of the
\* sender's room and to nobody else, not to the sender; an undo or clear is relayed to
\* every member of the room, the sender included.
C12_FanOutTargets ==
  [][\A s \in Clients :
       /\ \A type \in {"stroke_start", "stroke_append", "stroke_end", "cursor"} :
            (Handles(s, type) /\ roomId'[s] # NoRoom)
            => \A t \in Clients :
                 IF t # s /\ roomId'[s] \in joined'[t]
                   THEN RelayedTo(t, type, s)
                   ELSE s2c'[t] = s2c[t]
       /\ \A type \in {"undo", "clear"} :
            (Handles(s, type) /\ roomId[s] # NoRoom)
            => \A t \in Clients :
                 s2c'[t] = IF roomId[s] \in joined[t]
                             THEN Append(s2c[t], [type |-> type])
                             ELSE s2c[t]]_vars

\* the server is handling a message of session s in this step
HandlesAny(s) == Received(s, Head(c2s[s]).type) /\ c2s'[s] = Tail(c2s[s])

\* C13: a session is a member of at most one room, the one it named last in join_room
\* or stroke_start; a message broadcast to a room by another session is delivered to
\* the sessions of that room only, not to a session that has switched to another room.
C13_OneRoomAtATime ==
  [][\A t \in Clients :
       /\ joined'[t] \subseteq {roomId'[t]}
       /\ \A s \in Clients \ {t} :
            (HandlesAny(s) /\ s2c'[t] # s2c[t]) => roomId[t] = roomId'[s]]_vars

\* C14: a stroke_append, stroke_end, undo, clear or cursor message of a session that
\* has joined no room, or that names a room other than the session's room, changes no
\* room's strokes, causes no broadcast, raises no error and leaves the connection as it
\* was.
C14_ForeignRoomNoOp ==
  [][\A s \in Clients :
       \A type \in {"stroke_append", "stroke_end", "undo", "clear", "cursor"} :
         ( /\ Handles(s, type)
           /\ roomId[s] = NoRoom \/ Head(c2s[s]).room # roomId[s] )
         => /\ rooms' = rooms
            /\ s2c' = s2c
            /\ threw' = threw
            /\ sock'[s] = sock[s]
            /\ joined'[s] = joined[s]]_vars

\* the message lacks a required field: a stroke_start without stroke or whose stroke
\* has no points, a stroke_append without point
Malformed(m) ==
  \/ /\ m.type = "stroke_start"
     /\ "stroke" \notin DOMAIN m \/ "points" \notin DOMAIN m.stroke
  \/ /\ m.type = "stroke_append"
     /\ "point" \notin DOMAIN m

\* C15: a malformed stroke_start or stroke_append leaves the strokes of every room as
\* they were, raises no error and leaves the connection open.
C15_MalformedRejected ==
  [][\A s \in Clients :
       (HandlesAny(s) /\ Malformed(Head(c2s[s])))
       => /\ \A r \in SessionRooms : StrokesOf(rooms', r) = StrokesOf(rooms, r)
          /\ threw' = threw
          /\ sock'[s] = sock[s]]_vars

\* C16: when the server handles the disconnect of a session that has a room, user_left
\* with the session's id is sent to every other member of that room and to nobody
\* else, and the session is a member of no room afterwards; the disconnect of a
\* session that never joined a room sends nothing.
C16_LeftNotification ==
  [][\A s \in Clients :
       Handles(s, "disconnect")
       => /\ joined'[s] = {}
          /\ \A t \in Clients :
               s2c'[t] = IF roomId[s] # NoRoom /\ t # s /\ roomId[s] \in joined[t]
                           THEN Append(s2c[t], [type |-> "user_left", id |-> s])
                           ELSE s2c[t]]_vars

\* session s joined a room that session t is in and went away: its disconnect is
\* handled, the last message sent to t is user_left of s
C16_Witness ==
  \E s \in Clients : \E t \in Clients \ {s} :
    /\ sock[s] = "closed"
    /\ c2s[s] = <<>>
    /\ roomId[s] # NoRoom
    /\ roomId[t] = roomId[s]
    /\ joined[s] = {}
    /\ s2c[t] # <<>>
    /\ s2c[t][Len(s2c[t])] = [type |-> "user_left", id |-> s]

\* the connection of session s is gone and the server has handled its disconnect
Gone(s) == sock[s] = "closed" /\ c2s[s] = <<>>

\* C17 (Cursor lifetime): once a session is gone and a connected client has handled
\* every message sent to it, the client holds no cursor record of that session.
C17_CursorLifetime ==
  \A c \in Clients : \A s \in Clients \ {c} :
    (Gone(s) /\ sock[c] = "connected" /\ s2c[c] = <<>>) => s \notin DOMAIN remoteCursors[c]

\* C18: join_room, cursor, stroke_end and disconnect leave the strokes of every room
\* as they were; join_room at most adds an empty state for a room that had none.  The
\* strokes of a session so stay in the room when the session goes away.
C18_NonMutatingHandlers ==
  [][\A s \in Clients :
       \A type \in {"join_room", "cursor", "stroke_end", "disconnect"} :
         Handles(s, type)
         => /\ \A r \in SessionRooms : StrokesOf(rooms', r) = StrokesOf(rooms, r)
            /\ \/ rooms' = rooms
               \/ /\ type = "join_room"
                  /\ Head(c2s[s]).room \notin DOMAIN rooms
                  /\ DOMAIN rooms' = DOMAIN rooms \cup {Head(c2s[s]).room}]_vars

\* session s started a stroke that member t was told of, and went away without a
\* stroke_end: its disconnect is handled and the stroke is still in the room
C18_Witness ==
  \E s \in Clients : \E t \in Clients \ {s} :
    /\ Gone(s)
    /\ roomId[s] # NoRoom
    /\ StrokeIds(StrokesOf(rooms, roomId[s])) = << <<0, s>> >>
    /\ "points" \in DOMAIN rooms[roomId[s]].strokes[1]
    /\ Len(s2c[t]) = 3
    /\ s2c[t][1].type = "state"
    /\ s2c[t][2].type = "stroke_start" /\ s2c[t][2].id = s
    /\ s2c[t][3] = [type |-> "user_left", id |-> s]

\* C19 (Room isolation): the strokes of a room change only in a step in which the
\* server handles a stroke_start, stroke_append, undo or clear of a session whose
\* current room is that room.
C19_RoomIsolation ==
  [][\A r \in SessionRooms :
       StrokesOf(rooms', r) # StrokesOf(rooms, r)
       => \E s \in Clients :
            /\ \E type \in {"stroke_start", "stroke_append", "undo", "clear"} : Handles(s, type)
            /\ roomId'[s] = r]_vars

\* sessions s and t each started a stroke in a room of their own and the clear of t
\* was handled: t's room is empty, s's room holds its stroke, nothing was sent to s
C19_Witness ==
  \E s \in Clients : \E t \in Clients \ {s} :
    /\ roomId[s] # NoRoom /\ roomId[t] # NoRoom /\ roomId[s] # roomId[t]
    /\ joined[s] = {roomId[s]} /\ joined[t] = {roomId[t]}
    /\ StrokeIds(StrokesOf(rooms, roomId[s])) = << <<0, s>> >>
    /\ StrokesOf(rooms, roomId[t]) = <<>>
    /\ s2c[s] = <<>>
    /\ s2c[t] = <<[type |-> "clear"]>>
    /\ c2s[s] = <<>> /\ c2s[t] = <<>>

\* what the server relays for stroke message m of session a
Relay(m, a) ==
  IF m.type = "stroke_start" THEN [type |-> m.type, id |-> a, stroke |-> m.stroke]
  ELSE IF m.type = "stroke_append" THEN [type |-> m.type, id |-> a, point |-> m.point]
  ELSE [type |-> m.type, id |-> a]

RelaySeq(q, a) == [i \in 1..Len(q) |-> Relay(q[i], a)]

StrokeTypes == {"stroke_start", "stroke_append", "stroke_end"}

\* the stroke messages of a queue, and those relayed for session a
StrokeMsgs(q) == LET Test(m) == m.type \in StrokeTypes IN SelectSeq(q, Test)

FromSender(q, a) == LET Test(m) == m.type \in StrokeTypes /\ m.id = a IN SelectSeq(q, Test)

\* the number of stroke messages of a that the server has handled
HandledCount(a) == Len(out[a]) - Len(StrokeMsgs(c2s[a]))

\* g is a run of consecutive elements of r
IsSegment(g, r) == \E i \in 1..(Len(r) + 1) : \E j \in 0..Len(r) : g = SubSeq(r, i, j)

\* member b has handled the k-th stroke message of a: what b has handled of a are
\* the messages i..j of a, j the last one relayed and not in flight to b
HasReceived(a, b, k) ==
  LET g == FromSender(got[b], a)
      j == HandledCount(a) - Len(FromSender(s2c[b], a))
      i == j - Len(g) + 1
  IN i >= 1 /\ i <= k /\ k <= j /\ g = SubSeq(RelaySeq(out[a], a), i, j)

MaxOut == 2 * MaxFairInputs

\* C20 (Delivery liveness and order): what a client has handled of another session's
\* stroke messages is a run of consecutive messages of that session in send order
\* (stroke_start, the appends, stroke_end); and the k-th stroke message of a joined
\* session a, not yet handled by the server while b is a connected member of a's
\* room, is handled by b in the end unless b's connection goes away.
C20_DeliveryAndOrder ==
  /\ [](\A a \in Clients : \A b \in Clients \ {a} :
          IsSegment(FromSender(got[b], a), RelaySeq(out[a], a)))
  /\ \A a \in Clients : \A b \in Clients \ {a} : \A k \in 1..MaxOut :
       ( /\ k <= Len(out[a])
         /\ k > HandledCount(a)
         /\ roomId[a] # NoRoom
         /\ roomId[a] \in joined[b]
         /\ sock[b] = "connected" )
       ~> (sock[b] = "closed" \/ HasReceived(a, b, k))

\* client b has handled a whole stroke of a: stroke_start, an append and stroke_end,
\* all that a has emitted
C20_Witness ==
  \E a \in Clients : \E b \in Clients \ {a} :
    /\ Len(out[a]) = 3
    /\ out[a][1].type = "stroke_start"
    /\ out[a][2].type = "stroke_append"
    /\ out[a][3].type = "stroke_end"
    /\ FromSender(got[b], a) = RelaySeq(out[a], a)
    /\ sock[b] = "connected"

\* C23: the server relays a stroke_append only when it stored the point: a
\* stroke_append that leaves the registry as it was is sent to no client.
C23_RelayOnlyWhenStored ==
  [][\A s \in Clients :
       (Handles(s, "stroke_append") /\ rooms' = rooms) => s2c' = s2c]_vars

\* C22: the stroke list of a client never holds the same stroke id twice.
C22_ClientUniqueIds ==
  \A c \in Clients : \A i, j \in 1..Len(strokes[c]) :
    i # j => strokes[c][i].id # strokes[c][j].id

\* client c is running its listener for the message at the head of s2c[c]
Gets(c, type) == Incoming(c, type) /\ s2c'[c] = Tail(s2c[c])

\* the id of the open remote stroke client c tracks for sender a (<<>>: none)
OpenId(rc, c, a) == IF rc[c][a].ref = NullStroke THEN <<>> ELSE rc[c][a].ref.id

====
